---- MODULE Spec2Model ----
(***************************************************************************)
(* Model of fan_control.py: the hysteresis/ramp policy of handle_fan_speed *)
(* and the lifecycle of main (startup, control loop, exception handlers,   *)
(* shutdown, process exit).                                                *)
(*                                                                         *)
(* Temperatures are kept in the sensor's unit (millidegrees, the integer    *)
(* read from sysfs); get_cpu_temperature divides by 1000, so a comparison   *)
(* curr_temp < args.x is raw < 1000 * x.  Duty cycles are exact rationals   *)
(* [n, d] in lowest terms (floating point rounding is not modelled).        *)
(***************************************************************************)
EXTENDS Integers, FiniteSets, Sequences, TLC

\* ---------------------------------------------------------------- constants
DEFAULT_MIN_TEMP == 55
DEFAULT_MIN_TEMP_COLLING == 50
DEFAULT_MAX_TEMP == 75
DEFAULT_FAN_LOW == 50
DEFAULT_FAN_HIGH == 100
DEFAULT_FAN_OFF == 0
DEFAULT_FAN_MAX == 100
\* float(f.read()) / 1000
MilliPerDegree == 1000

\* ------------------------------------------------------------------- bounds
\* thresholds range over DEFAULT_MIN_TEMP + 10 * k, k in -1..MaxThresholdStep
MaxThresholdStep == 2
\* fan percentages range over 50 * k, k in 0..MaxFanStep
MaxFanStep == 3
\* sensor readings range over 2500 * j millidegrees, j in 16..MaxReadingStep
MaxReadingStep == 34

ThresholdVals == {DEFAULT_MIN_TEMP + 10 * k : k \in -1..MaxThresholdStep}
FanVals == {50 * k : k \in 0..MaxFanStep}
Readings == {2500 * j : j \in 16..MaxReadingStep}

\* every value argparse/configparser accept: integers, with no validation
Configs ==
    [min_temp : ThresholdVals, min_cool_temp : ThresholdVals, max_temp : ThresholdVals,
     fan_low : FanVals, fan_high : FanVals]

\* the configuration invariant of the specification (section 3)
ValidConfig(c) ==
    /\ c.min_cool_temp < c.min_temp
    /\ c.min_temp < c.max_temp
    /\ 0 <= c.fan_low
    /\ c.fan_low <= c.fan_high
    /\ c.fan_high <= 100

\* ---------------------------------------------------------------- rationals
Abs(x) == IF x < 0 THEN -x ELSE x

RECURSIVE GCD(_, _)
GCD(a, b) == IF b = 0 THEN a ELSE GCD(b, a % b)

\* n / d in lowest terms, d > 0
Frac(n, d) ==
    LET s == IF d < 0 THEN -1 ELSE 1
        g == GCD(Abs(n), Abs(d))
    IN  [n |-> (s * n) \div g, d |-> (s * d) \div g]

Whole(k) == [n |-> k, d |-> 1]

\* ------------------------------------------------------------------- policy
\* line 77: not REMAIN_ACTIVATED and curr_temp < args.min_temp
IdleHoldCool(act, raw, c) == act = 0 /\ raw < MilliPerDegree * c.min_cool_temp
IdleHoldLe(act, raw, c) == act = 0 /\ raw <= MilliPerDegree * c.min_temp
IdleHold(act, raw, c) == act = 0 /\ raw < MilliPerDegree * c.min_temp

\* line 83: curr_temp < args.min_cool_temp
CooldownAtMin(raw, c) == raw < MilliPerDegree * c.min_temp
Cooldown(raw, c) == raw < MilliPerDegree * c.min_cool_temp

\* line 88: curr_temp < args.min_temp
LowBand(raw, c) == raw < MilliPerDegree * c.min_temp

\* line 92: curr_temp > args.max_temp
Saturated(raw, c) == raw > MilliPerDegree * c.max_temp

\* line 97: the divisor args.max_temp - args.min_temp
RampDivisor(c) == c.max_temp - c.min_temp

\* lines 97-99, for RampDivisor(c) # 0
RampSpeedFromCool(raw, c) ==
    Frac(c.fan_low * MilliPerDegree * RampDivisor(c)
           + (c.fan_high - c.fan_low) * (raw - MilliPerDegree * c.min_cool_temp),
         MilliPerDegree * RampDivisor(c))
RampSpeedFromMax(raw, c) ==
    Frac(c.fan_low * MilliPerDegree * RampDivisor(c)
           + (c.fan_high - c.fan_low) * (raw - MilliPerDegree * c.max_temp),
         MilliPerDegree * RampDivisor(c))
RampSpeedNoOffset(raw, c) ==
    Frac((c.fan_high - c.fan_low) * (raw - MilliPerDegree * c.min_temp),
         MilliPerDegree * RampDivisor(c))
RampSpeed(raw, c) ==
    Frac(c.fan_low * MilliPerDegree * RampDivisor(c)
           + (c.fan_high - c.fan_low) * (raw - MilliPerDegree * c.min_temp),
         MilliPerDegree * RampDivisor(c))

\* The branch handle_fan_speed takes for a reading, lines 77-100
Branch(act, raw, c) ==
    IF IdleHold(act, raw, c) THEN "idle"
    ELSE IF Cooldown(raw, c) THEN "cooldown"
    ELSE IF LowBand(raw, c) THEN "low"
    ELSE IF Saturated(raw, c) THEN "max"
    ELSE IF RampDivisor(c) = 0 THEN "zero_div"
    ELSE "ramp"

\* The speed the branch hands to set_fan_speed
BranchSpeedMaxFanHigh(b, raw, c) ==
    CASE b = "idle" -> Whole(DEFAULT_FAN_OFF)
      [] b = "cooldown" -> Whole(DEFAULT_FAN_OFF)
      [] b = "low" -> Whole(DEFAULT_FAN_LOW)
      [] b = "max" -> Whole(c.fan_high)
      [] b = "ramp" -> RampSpeed(raw, c)
      [] OTHER -> Whole(0)
BranchSpeed(b, raw, c) ==
    CASE b = "idle" -> Whole(DEFAULT_FAN_OFF)
      [] b = "cooldown" -> Whole(DEFAULT_FAN_OFF)
      [] b = "low" -> Whole(DEFAULT_FAN_LOW)
      [] b = "max" -> Whole(DEFAULT_FAN_MAX)
      [] b = "ramp" -> RampSpeed(raw, c)
      [] OTHER -> Whole(0)

\* ---------------------------------------------------------------- I/O calls
\* what one call to a collaborator can do: return, raise an Exception, or be
\* cut by a KeyboardInterrupt before or after its effect took place
CallOutcomes == {"ok", "error", "interrupt_before", "interrupt_after"}

Effected(o) == o \in {"ok", "interrupt_after"}

Raised(o) ==
    CASE o = "ok" -> "none"
      [] o = "error" -> "Exception"
      [] OTHER -> "KeyboardInterrupt"

\* the except clause of main that takes a raised exception, lines 135-139
HandlerOf(e) == IF e = "KeyboardInterrupt" THEN "except_kbd" ELSE "except_exc"

CauseOf(e) == IF e = "KeyboardInterrupt" THEN "cancel" ELSE "error"

\* -------------------------------------------------------------------- state
VARIABLES
    args,              \* the configuration namespace (lines 189-193)
    pc,                \* position of the process in main / __main__ (lines 127-141, 203-206)
    REMAIN_ACTIVATED,  \* the global latch, 0 or 1 (line 22)
    fan_control,       \* main's local (line 128): "unbound" or "handle"
    chip_open,         \* the gpiochip is held by the process (lines 128, 112)
    duty,              \* last duty cycle commanded by lgpio.tx_pwm (line 60)
    writer,            \* who commanded it: "none", "prime", "tick", "shutdown"
    curr_temp,         \* reading of the current/last tick, millidegrees (line 74)
    act0,              \* latch at the start of the current/last tick
    branch,            \* branch of the current/last tick, "none" without reading
    exc,               \* exception in flight in main (lines 135-141)
    cause,             \* what ended the try body: "none", "cancel", "error"
    sigint,            \* a KeyboardInterrupt has been raised in this run
    tick_failed,       \* a tick raised an Exception (read, write, arithmetic)
    shutdowns,         \* calls of shutdown (line 103)
    closes,            \* calls of lgpio.gpiochip_close (line 112)
    claimed,           \* the PWM pin is claimed as output (line 129)
    hot_seen,          \* a tick of the running loop has read >= min_temp
    tick_io,           \* collaborator calls of the current/last tick, in order
    outcome            \* how the process ended (lines 203-206)

vars == <<args, pc, REMAIN_ACTIVATED, fan_control, chip_open, duty, writer,
          curr_temp, act0, branch, exc, cause, sigint, tick_failed, shutdowns,
          closes, claimed, hot_seen, tick_io, outcome>>

Init ==
    /\ args \in Configs
    /\ pc = "open"
    /\ REMAIN_ACTIVATED = 0
    /\ fan_control = "unbound"
    /\ chip_open = FALSE
    /\ duty = Whole(0)
    /\ writer = "none"
    /\ curr_temp = 0
    /\ act0 = 0
    /\ branch = "none"
    /\ exc = "none"
    /\ cause = "none"
    /\ sigint = FALSE
    /\ tick_failed = FALSE
    /\ shutdowns = 0
    /\ closes = 0
    /\ claimed = FALSE
    /\ hot_seen = FALSE
    /\ tick_io = <<>>
    /\ outcome = "running"

\* leaving the try body of main with exception e
Raise(e) ==
    /\ exc' = e
    /\ cause' = CauseOf(e)
    /\ sigint' = (sigint \/ e = "KeyboardInterrupt")
    /\ pc' = HandlerOf(e)

\* line 128: fan_control = lgpio.gpiochip_open(0)
Open ==
    /\ pc = "open"
    /\ \E o \in CallOutcomes :
        /\ chip_open' = Effected(o)
        /\ IF o = "ok"
           THEN /\ fan_control' = "handle"
                /\ pc' = "claim"
                /\ UNCHANGED <<exc, cause, sigint>>
           ELSE /\ fan_control' = "unbound"
                /\ Raise(Raised(o))
    /\ UNCHANGED <<args, REMAIN_ACTIVATED, duty, writer, curr_temp, act0, branch,
                   tick_failed, shutdowns, closes, claimed, hot_seen, tick_io,
                   outcome>>

\* line 129: lgpio.gpio_claim_output(fan_control, args.pwm_gpio)
Claim ==
    /\ pc = "claim"
    /\ \E o \in CallOutcomes :
        /\ claimed' = Effected(o)
        /\ IF o = "ok"
           THEN pc' = "prime" /\ UNCHANGED <<exc, cause, sigint>>
           ELSE Raise(Raised(o))
    /\ UNCHANGED <<args, REMAIN_ACTIVATED, fan_control, chip_open, duty, writer,
                   curr_temp, act0, branch, tick_failed, shutdowns, closes,
                   hot_seen, tick_io, outcome>>

\* lines 47-64: set_fan_speed(fan, speed, ...) by caller w with outcome o
SetFanSpeed(speed, w, o) ==
    IF Effected(o)
    THEN duty' = speed /\ writer' = w
    ELSE UNCHANGED <<duty, writer>>

\* line 130: set_fan_speed(fan_control, args.fan_low, args.min_temp)
Prime ==
    /\ pc = "prime"
    /\ \E o \in CallOutcomes :
        /\ SetFanSpeed(Whole(args.fan_low), "prime", o)
        /\ IF o = "ok"
           THEN pc' = "tick" /\ UNCHANGED <<exc, cause, sigint>>
           ELSE Raise(Raised(o))
    /\ UNCHANGED <<args, REMAIN_ACTIVATED, fan_control, chip_open, curr_temp, act0,
                   branch, tick_failed, shutdowns, closes, claimed, hot_seen,
                   tick_io, outcome>>

\* lines 30-45: get_cpu_temperature() returns, raises, or is interrupted
ReadOutcomes == {"ok", "error", "interrupt"}

ReadRaised(r) == IF r = "error" THEN "Exception" ELSE "KeyboardInterrupt"

\* lines 81-85: the latch once branch b has run; completed = the branch's
\* statements all ran (cooldown clears the latch after its set_fan_speed)
LatchAfterNoRelease(b, act, completed) ==
    IF b = "idle" THEN act ELSE 1
LatchAfter(b, act, completed) ==
    IF b = "idle" THEN act
    ELSE IF b = "cooldown" /\ completed THEN 0
    ELSE 1

\* lines 74-100: the collaborator calls of a tick that got its reading and
\* took branch b: every branch calls set_fan_speed once (the idle branch
\* returns on line 79, the others are one if/elif/else chain); the division
\* by zero on line 97 raises before the call
TickCallsNoReturn(b) ==
    IF b = "zero_div" THEN <<"read">>
    ELSE IF b = "idle" THEN <<"read", "write", "write">>
    ELSE <<"read", "write">>
TickCalls(b) ==
    IF b = "zero_div" THEN <<"read">> ELSE <<"read", "write">>

\* lines 66-100: handle_fan_speed(fan_control), one tick
Tick ==
    /\ pc = "tick"
    /\ act0' = REMAIN_ACTIVATED
    /\ \E r \in ReadOutcomes :
        IF r # "ok"
        THEN /\ curr_temp' = 0
             /\ branch' = "none"
             /\ tick_io' = <<"read">>
             /\ tick_failed' = (r = "error")
             /\ Raise(ReadRaised(r))
             /\ UNCHANGED <<REMAIN_ACTIVATED, duty, writer, hot_seen>>
        ELSE \E raw \in Readings :
             LET b == Branch(REMAIN_ACTIVATED, raw, args) IN
             /\ curr_temp' = raw
             /\ branch' = b
             /\ hot_seen' = (hot_seen \/ raw >= MilliPerDegree * args.min_temp)
             /\ IF b = "zero_div"
                THEN /\ REMAIN_ACTIVATED' = 1
                     /\ tick_io' = TickCalls(b)
                     /\ tick_failed' = TRUE
                     /\ Raise("Exception")
                     /\ UNCHANGED <<duty, writer>>
                ELSE \E o \in CallOutcomes :
                     /\ SetFanSpeed(BranchSpeed(b, raw, args), "tick", o)
                     /\ tick_io' = IF o = "interrupt_before" THEN <<"read">>
                                   ELSE TickCalls(b)
                     /\ \E completed \in {o = "ok", o \in {"ok", "interrupt_after"}} :
                            REMAIN_ACTIVATED' = LatchAfter(b, REMAIN_ACTIVATED, completed)
                     /\ tick_failed' = (o = "error")
                     /\ IF o = "ok"
                        THEN pc' = "sleep" /\ UNCHANGED <<exc, cause, sigint>>
                        ELSE Raise(Raised(o))
    /\ UNCHANGED <<args, fan_control, chip_open, shutdowns, closes, claimed,
                   outcome>>

\* line 134: time.sleep(args.wait_time), interruptible
Sleep ==
    /\ pc = "sleep"
    /\ \/ pc' = "tick" /\ UNCHANGED <<exc, cause, sigint>>
       \/ Raise("KeyboardInterrupt")
    /\ UNCHANGED <<args, REMAIN_ACTIVATED, fan_control, chip_open, duty, writer,
                   curr_temp, act0, branch, tick_failed, shutdowns, closes,
                   claimed, hot_seen, tick_io, outcome>>

\* the frame of handle_fan_speed is gone once main has caught the exception:
\* its local curr_temp and the record of the tick and of the loop are dropped
Unwound ==
    /\ curr_temp' = 0
    /\ act0' = 0
    /\ branch' = "none"
    /\ hot_seen' = FALSE
    /\ tick_io' = <<>>

\* lines 135-136: except KeyboardInterrupt: logging.info(...)
\* (a second interrupt during the clause propagates out of it)
ExceptKeyboardInterrupt ==
    /\ pc = "except_kbd"
    /\ exc' \in {"none", "KeyboardInterrupt"}
    /\ sigint' = (sigint \/ exc' = "KeyboardInterrupt")
    /\ pc' = "finally"
    /\ Unwound
    /\ UNCHANGED <<args, REMAIN_ACTIVATED, fan_control, chip_open, duty, writer,
                   cause, tick_failed, shutdowns, closes, claimed, outcome>>

\* lines 137-139: except Exception: logging.critical(...); raise SystemExit(1)
\* (an interrupt during the clause propagates in place of SystemExit)
ExceptException ==
    /\ pc = "except_exc"
    /\ exc' \in {"SystemExit", "KeyboardInterrupt"}
    /\ sigint' = (sigint \/ exc' = "KeyboardInterrupt")
    /\ pc' = "finally"
    /\ Unwound
    /\ UNCHANGED <<args, REMAIN_ACTIVATED, fan_control, chip_open, duty, writer,
                   cause, tick_failed, shutdowns, closes, claimed, outcome>>

\* line 141 when main's local fan_control was never assigned: evaluating the
\* argument raises UnboundLocalError before shutdown is entered
FinallyUnbound ==
    /\ pc = "finally"
    /\ fan_control = "unbound"
    /\ exc' = "UnboundLocalError"
    /\ pc' = "exit"
    /\ UNCHANGED <<args, REMAIN_ACTIVATED, fan_control, chip_open, duty, writer,
                   curr_temp, act0, branch, cause, sigint, tick_failed, shutdowns,
                   closes, claimed, hot_seen, tick_io, outcome>>

\* lines 103-115 called from line 141: shutdown(fan_control).
\* w is the outcome of set_fan_speed, c of gpiochip_close (not called unless
\* set_fan_speed returned).  except Exception swallows errors; a
\* KeyboardInterrupt is no Exception and leaves shutdown and main.
ShutdownCall ==
    /\ shutdowns' = shutdowns + 1
    /\ \E w \in CallOutcomes :
        /\ SetFanSpeed(Whole(DEFAULT_FAN_LOW), "shutdown", w)
        /\ IF w = "ok"
           THEN \E c \in CallOutcomes :
                /\ closes' = IF c = "interrupt_before" THEN closes ELSE closes + 1
                /\ chip_open' = IF Effected(c) THEN FALSE ELSE chip_open
                /\ exc' = IF Raised(c) = "KeyboardInterrupt" THEN "KeyboardInterrupt" ELSE exc
                /\ sigint' = (sigint \/ Raised(c) = "KeyboardInterrupt")
           ELSE /\ UNCHANGED <<closes, chip_open>>
                /\ exc' = IF Raised(w) = "KeyboardInterrupt" THEN "KeyboardInterrupt" ELSE exc
                /\ sigint' = (sigint \/ Raised(w) = "KeyboardInterrupt")
    /\ UNCHANGED <<args, REMAIN_ACTIVATED, fan_control, curr_temp, act0, branch,
                   cause, tick_failed, claimed, hot_seen, tick_io, outcome>>

\* line 141 with fan_control assigned: finally: shutdown(fan_control)
Shutdown ==
    /\ pc = "finally"
    /\ fan_control = "handle"
    /\ ShutdownCall
    /\ pc' = "exit"

\* shutdown(fan) invoked a second time on the same handle, as the
\* specification's shutdown scenario does (main itself never does).  The
\* handle may be stale by then; what lgpio answers to it is left open.
ShutdownAgain ==
    /\ pc = "exit"
    /\ fan_control = "handle"
    /\ shutdowns = 1
    /\ ShutdownCall
    /\ pc' = "exit"

\* how the interpreter ends for the exception that left main
OutcomeOf(e) ==
    CASE e = "none" -> "exit0"
      [] e = "SystemExit" -> "exit1"
      [] OTHER -> e

\* lines 203-206: try: main() / except SystemExit as e: sys.exit(e.code)
Exit ==
    /\ pc = "exit"
    /\ outcome' = OutcomeOf(exc)
    /\ pc' = "done"
    /\ UNCHANGED <<args, REMAIN_ACTIVATED, fan_control, chip_open, duty, writer,
                   curr_temp, act0, branch, exc, cause, sigint, tick_failed,
                   shutdowns, closes, claimed, hot_seen, tick_io>>

Next ==
    \/ Open
    \/ Claim
    \/ Prime
    \/ Tick
    \/ Sleep
    \/ ExceptKeyboardInterrupt
    \/ ExceptException
    \/ FinallyUnbound
    \/ Shutdown
    \/ Exit

Spec == Init /\ [][Next]_vars

\* the program, with a caller that invokes shutdown twice
NextTwice ==
    \/ Next
    \/ ShutdownAgain

SpecTwice == Init /\ [][NextTwice]_vars

\* ------------------------------------------------------------------ claims
\* comparisons of a duty cycle [n, d], d > 0, with an integer percentage
DutyGe(f, k) == f.n >= k * f.d
DutyLe(f, k) == f.n <= k * f.d

\* the reading of the last tick against a threshold in degrees
TempLt(x) == curr_temp < MilliPerDegree * x
TempGe(x) == curr_temp >= MilliPerDegree * x
TempLe(x) == curr_temp <= MilliPerDegree * x

\* the state right after a tick that returned (line 133 done, line 134 next)
TickReturned == pc = "sleep"

\* C1: under a valid configuration every duty cycle commanded to the PWM
\* (startup priming, any tick, shutdown) lies within [0, 100].
C1_DutyWithinBounds ==
    (ValidConfig(args) /\ writer # "none") => (DutyGe(duty, 0) /\ DutyLe(duty, 100))

\* C1 witness: a tick of a valid configuration commanded a fractional ramp duty.
C1_Witness ==
    /\ ValidConfig(args)
    /\ TickReturned
    /\ writer = "tick"
    /\ branch = "ramp"
    /\ duty.d # 1

\* C2 (as claimed): a tick that starts with the latch engaged and reads
\* min_cool_temp <= t < min_temp commands the configured fan_low and leaves
\* the latch engaged.
C2_LowBandConfiguredFanLow ==
    (ValidConfig(args) /\ TickReturned /\ act0 = 1
        /\ TempGe(args.min_cool_temp) /\ TempLt(args.min_temp))
    => (duty = Whole(args.fan_low) /\ REMAIN_ACTIVATED = 1)

\* C3 (as claimed): once the loop has exited and shutdown has run without an
\* I/O failure (its duty write returned and gpiochip_close was called), the
\* last duty commanded is the configured fan_low, the value startup primed;
\* in particular when the loop exited by a fatal tick error and no interrupt
\* ever arrived.
C3_ShutdownDutyIsConfiguredFanLow ==
    (ValidConfig(args) /\ pc \in {"exit", "done"} /\ closes = 1
        /\ tick_failed /\ ~sigint)
    => duty = Whole(args.fan_low)

\* C4 (as claimed): a run that obtained the PWM/GPIO handle has called
\* gpiochip_close exactly once when the process ends, on every exit path
\* in particular in a run no interrupt ever reached.
C4_ReleasedExactlyOnce ==
    (ValidConfig(args) /\ pc = "done" /\ fan_control = "handle" /\ ~sigint)
    => closes = 1

\* C5 (as claimed): shutdown has run exactly once when the process ends,
\* whatever ended the run; in particular after a failure during startup, in
\* a run no interrupt ever reached.
C5_ShutdownExactlyOnce ==
    (ValidConfig(args) /\ pc = "done" /\ ~sigint) => shutdowns = 1

\* C6 (as claimed): nothing raised while shutting down leaves the shutdown
\* path: the finally clause of main leaves the exception in flight as it
\* found it (none after a cancellation, SystemExit(1) after a fatal error);
\* in particular when no interrupt arrives while it runs.
C6_ShutdownNeverRaises ==
    [][(ValidConfig(args) /\ pc = "finally" /\ ~sigint') => exc' = exc]_vars

\* C7 (as claimed): after a tick failed on its read or its write no further
\* tick runs (the loop is never re-entered) and the process ends with exit
\* status 1.
C7_TickFailureFatal ==
    (ValidConfig(args) /\ tick_failed) =>
        /\ pc \notin {"tick", "sleep"}
        /\ pc = "done" => outcome = "exit1"

\* C8 (as claimed): an invalid configuration is rejected at startup: no PWM
\* resource is acquired and no tick runs, so no tick divides by zero.
C8_InvalidConfigRejected ==
    ~ValidConfig(args) =>
        /\ ~chip_open
        /\ fan_control = "unbound"
        /\ pc \notin {"tick", "sleep"}
        /\ branch # "zero_div"

\* C9: under a valid configuration a tick that returns and started IDLE ends
\* ENGAGED iff its reading is >= min_temp; one that started ENGAGED ends IDLE
\* iff its reading is < min_cool_temp; and the latch changes in no other step
\* (only in a tick, only with such a reading).
C9_LatchTransitions ==
    [][ValidConfig(args) =>
        /\ (pc = "tick" /\ pc' = "sleep" /\ REMAIN_ACTIVATED = 0)
             => (REMAIN_ACTIVATED' = 1 <=> curr_temp' >= MilliPerDegree * args.min_temp)
        /\ (pc = "tick" /\ pc' = "sleep" /\ REMAIN_ACTIVATED = 1)
             => (REMAIN_ACTIVATED' = 0 <=> curr_temp' < MilliPerDegree * args.min_cool_temp)
        /\ (REMAIN_ACTIVATED = 0 /\ REMAIN_ACTIVATED' = 1)
             => (pc = "tick" /\ branch' # "none"
                 /\ curr_temp' >= MilliPerDegree * args.min_temp)
        /\ (REMAIN_ACTIVATED = 1 /\ REMAIN_ACTIVATED' = 0)
             => (pc = "tick" /\ branch' # "none"
                 /\ curr_temp' < MilliPerDegree * args.min_cool_temp)
      ]_vars

\* C9 witness: a tick that started IDLE read exactly min_temp and ended ENGAGED.
C9_Witness ==
    /\ ValidConfig(args)
    /\ TickReturned
    /\ act0 = 0
    /\ curr_temp = MilliPerDegree * args.min_temp
    /\ REMAIN_ACTIVATED = 1

\* the configuration of the specification's ramp example
RampExample ==
    /\ args.min_temp = 55
    /\ args.max_temp = 75
    /\ args.fan_low = 50
    /\ args.fan_high = 100

\* C10: under a valid configuration a tick reading min_temp <= t <= max_temp
\* takes the ramp branch and commands
\* fan_low + (fan_high - fan_low) * (t - min_temp) / (max_temp - min_temp),
\* which lies in [fan_low, fan_high], is fan_low at min_temp, fan_high at
\* max_temp, and 75 at t = 65 for min_temp=55, max_temp=75, fan 50..100.
C10_LinearRamp ==
    (ValidConfig(args) /\ TickReturned
        /\ TempGe(args.min_temp) /\ TempLe(args.max_temp))
    => /\ branch = "ramp"
       /\ writer = "tick"
       /\ duty.n * MilliPerDegree * (args.max_temp - args.min_temp)
            = duty.d * (args.fan_low * MilliPerDegree * (args.max_temp - args.min_temp)
                        + (args.fan_high - args.fan_low)
                            * (curr_temp - MilliPerDegree * args.min_temp))
       /\ DutyGe(duty, args.fan_low)
       /\ DutyLe(duty, args.fan_high)
       /\ curr_temp = MilliPerDegree * args.min_temp => duty = Whole(args.fan_low)
       /\ curr_temp = MilliPerDegree * args.max_temp => duty = Whole(args.fan_high)
       /\ (RampExample /\ curr_temp = 65 * MilliPerDegree) => duty = Whole(75)

\* C10 witness: the example tick (55/75, 50..100, reading 65.0) commanded 75.
C10_Witness ==
    /\ ValidConfig(args)
    /\ RampExample
    /\ TickReturned
    /\ curr_temp = 65 * MilliPerDegree
    /\ duty = Whole(75)

\* the reading of the last tick lies in the hysteresis band
InBand == TempGe(args.min_cool_temp) /\ TempLt(args.min_temp)

\* C11: under a valid configuration a tick that reads more than max_temp
\* commands duty 100 and ends with the latch engaged, whatever the latch was
\* before and whatever fan_high is.
C11_Saturation ==
    (ValidConfig(args) /\ TickReturned /\ curr_temp > MilliPerDegree * args.max_temp)
    => /\ writer = "tick"
       /\ duty = Whole(100)
       /\ REMAIN_ACTIVATED = 1

\* C11 witness: a tick that started IDLE under fan_high # 100 read above
\* max_temp and commanded 100.
C11_Witness ==
    /\ ValidConfig(args)
    /\ TickReturned
    /\ act0 = 0
    /\ args.fan_high # 100
    /\ curr_temp > MilliPerDegree * args.max_temp
    /\ duty = Whole(100)

\* C12: the latch starts false, and as long as every reading so far was
\* below min_temp the latch is false and every tick that returns has
\* commanded duty 0 (also for readings in [min_cool_temp, min_temp)).
C12_IdleHold ==
    /\ pc = "open" => REMAIN_ACTIVATED = 0
    /\ (pc \in {"tick", "sleep"} /\ ~hot_seen) => REMAIN_ACTIVATED = 0
    /\ (TickReturned /\ ~hot_seen)
         => (act0 = 0 /\ writer = "tick" /\ duty = Whole(0))

\* C12 witness: no reading has reached min_temp yet and a tick read inside
\* [min_cool_temp, min_temp): duty 0, latch false.
C12_Witness ==
    /\ ValidConfig(args)
    /\ TickReturned
    /\ ~hot_seen
    /\ InBand
    /\ duty = Whole(0)
    /\ REMAIN_ACTIVATED = 0

\* C13: a tick that returns, passed the idle-hold check (latch engaged or
\* reading >= min_temp) and read below min_cool_temp has commanded duty 0 and
\* released the latch; the tick after it, if it reads below min_temp, is an
\* idle-hold tick (duty 0, latch false).
C13_Cooldown ==
    [][/\ (pc = "tick" /\ pc' = "sleep"
            /\ (REMAIN_ACTIVATED = 1 \/ curr_temp' >= MilliPerDegree * args.min_temp)
            /\ curr_temp' < MilliPerDegree * args.min_cool_temp)
          => (writer' = "tick" /\ duty' = Whole(0) /\ REMAIN_ACTIVATED' = 0)
       /\ (pc = "tick" /\ branch = "cooldown" /\ pc' = "sleep"
            /\ curr_temp' < MilliPerDegree * args.min_temp)
          => (branch' = "idle" /\ duty' = Whole(0) /\ REMAIN_ACTIVATED' = 0)
      ]_vars

\* C13 witness: a tick that started ENGAGED read below min_cool_temp and
\* ended with duty 0 and the latch released.
C13_Witness ==
    /\ ValidConfig(args)
    /\ TickReturned
    /\ act0 = 1
    /\ TempLt(args.min_cool_temp)
    /\ duty = Whole(0)
    /\ REMAIN_ACTIVATED = 0

\* C14 (as claimed): in every run the first duty write after the PWM resource
\* was acquired commands the configured fan_low, and no temperature was read
\* before it; in particular in a run no interrupt reached.
C14_FirstWriteIsConfiguredFanLow ==
    [][(ValidConfig(args) /\ ~sigint' /\ writer = "none" /\ writer' # "none")
        => (duty' = Whole(args.fan_low) /\ tick_io = <<>> /\ ~tick_failed)]_vars

\* C15 (as claimed): a run ended by a cancellation request, wherever it
\* arrived, has run the shutdown sequence and ends as a non-failure.
C15_CancellationShutsDownCleanly ==
    (ValidConfig(args) /\ pc = "done" /\ cause = "cancel")
    => (shutdowns = 1 /\ outcome = "exit0")

\* C16 (as claimed): when shutdown has been invoked twice on the same handle,
\* gpiochip_close has been called once in total, not twice.
C16_ReleaseIdempotent ==
    (ValidConfig(args) /\ ~sigint /\ shutdowns = 2) => closes <= 1

\* C17: under a valid configuration a tick that returns and read inside
\* [min_cool_temp, min_temp) leaves the latch as it was, commands 0 if the
\* latch is false and the low-speed branch's duty if it is engaged, and
\* commands the same duty as the tick before it if that one read inside the
\* band too.
C17_NoChattering ==
    [][(ValidConfig(args) /\ pc = "tick" /\ pc' = "sleep"
          /\ curr_temp' >= MilliPerDegree * args.min_cool_temp
          /\ curr_temp' < MilliPerDegree * args.min_temp)
        => /\ REMAIN_ACTIVATED' = REMAIN_ACTIVATED
           /\ REMAIN_ACTIVATED = 0 => (branch' = "idle" /\ duty' = Whole(0))
           /\ REMAIN_ACTIVATED = 1 => branch' = "low"
           /\ (branch # "none" /\ InBand) => duty' = duty
      ]_vars

\* C17 witness: a tick that started ENGAGED read inside the band and left the
\* latch engaged at the low-speed duty.
C17_Witness ==
    /\ ValidConfig(args)
    /\ TickReturned
    /\ InBand
    /\ act0 = 1
    /\ branch = "low"
    /\ REMAIN_ACTIVATED = 1

\* C18: a tick that returns (the sleep follows it) has made exactly one
\* temperature read followed by exactly one duty write, of the speed of the
\* branch chosen by that reading and the latch held at the start of the tick;
\* no tick writes before reading or writes twice.
C18_TickSequencing ==
    /\ TickReturned =>
         /\ tick_io = <<"read", "write">>
         /\ writer = "tick"
         /\ branch = Branch(act0, curr_temp, args)
         /\ duty = BranchSpeed(branch, curr_temp, args)
    /\ tick_io \in {<<>>, <<"read">>, <<"read", "write">>}

\* C18 witness: a second or later tick has returned after one read and one write.
C18_Witness ==
    /\ TickReturned
    /\ hot_seen
    /\ act0 = 1
    /\ tick_io = <<"read", "write">>

\* C19 (as claimed): a duty write is issued only with the chip opened and the
\* pin claimed, and once gpiochip_close was called no tick or write follows.
C19_HandleUsedOnlyWhileHeld ==
    /\ (ValidConfig(args) /\ ~sigint /\ writer # "none")
         => (fan_control = "handle" /\ claimed)
    /\ closes > 0 => pc \in {"exit", "done"}

\* C20 (as claimed): under a valid configuration a tick reading >= min_temp
\* never commands less than fan_low, and duty 0 is commanded only by ticks
\* reading < min_temp.
C20_Original ==
    (ValidConfig(args) /\ TickReturned)
    => /\ TempGe(args.min_temp) => DutyGe(duty, args.fan_low)
       /\ duty = Whole(0) => TempLt(args.min_temp)

\* C20 (amended): under a valid configuration a tick reading >= min_temp
\* never commands less than fan_low, and when fan_low > 0 duty 0 is commanded
\* only by ticks reading < min_temp.
C20_SafetyFloor ==
    (ValidConfig(args) /\ TickReturned)
    => /\ TempGe(args.min_temp) => (writer = "tick" /\ DutyGe(duty, args.fan_low))
       /\ (args.fan_low > 0 /\ duty = Whole(0)) => TempLt(args.min_temp)

\* C20 witness: with fan_low > 0 a tick that started IDLE read >= min_temp
\* inside the ramp and commanded at least fan_low.
C20_Witness ==
    /\ ValidConfig(args)
    /\ args.fan_low > 0
    /\ TickReturned
    /\ act0 = 0
    /\ branch = "ramp"
    /\ DutyGe(duty, args.fan_low)

====
